---- MODULE Spec2Model ----
(***************************************************************************)
(* RenderView of ff-three: the viewport registry, the active               *)
(* viewport/object/component triplet, and the routing of pointer and       *)
(* trigger events (routeEvent) to the render system and to a viewport.     *)
(*                                                                         *)
(* One action per public method of RenderView.  Every action models the    *)
(* whole call, from entry to return or to the exception that leaves it.    *)
(* The collaborators that are not part of the class (Viewport, Picker,     *)
(* RenderSystem) are modelled by what the class reads from them.           *)
(*                                                                         *)
(* CameraController of ff-three: the phase and mode of a gesture, the      *)
(* pending deltas, and the orbit and offset that update() derives from     *)
(* them.  Its numbers are fixed-point.  SpecCamera runs the controller,    *)
(* Spec the registry and the routing, SpecView these and the frame loop.   *)
(***************************************************************************)
EXTENDS Integers, Sequences, FiniteSets, TLC

----------------------------------------------------------------------------
(* Bounds of the model *)

\* most viewports the registry is let grow to
MaxViewports == 2
\* largest localX of an input event (the widest viewport covers 0 and 1)
MaxX == 2
\* largest index the picker returns
MaxIndex == 3
\* most pointer and trigger events a camera controller is sent
MaxEvents == 3

----------------------------------------------------------------------------
(* Values *)

\* null (and undefined): no viewport, no object, no component, no node
Null == 0

\* local coordinates of an input event; the viewports lie side by side in
\* row 0, so the hit test is decided by localX
LocalXs == 0..MaxX
LocalYs == {0}

\* EManipPointerEventType and EManipTriggerEventType
PointerTypes == {"down", "move", "up", "hover"}
TriggerTypes == {"wheel"}

\* A Viewport the caller built itself and never handed to the view.
Foreign == MaxViewports + 1

\* Viewport: the rectangle of the canvas it covers.
Full == [x |-> 0, y |-> 0, width |-> 2, height |-> 1]
Left == [x |-> 0, y |-> 0, width |-> 1, height |-> 1]
Right == [x |-> 1, y |-> 0, width |-> 1, height |-> 1]

\* The layout the owner of the view gives its viewports: the first covers
\* the left half of the canvas, the second all of it, the third the right
\* half, and so on.
vpRect(viewport) ==
    CASE viewport % 3 = 1 -> Left
      [] viewport % 3 = 2 -> Full
      [] OTHER -> Right

VARIABLES
    viewports,          \* this.viewports: sequence of viewport identities
    vpEnabled,          \* Viewport.enabled of every viewport the view created
    activeViewport,     \* this.activeViewport
    activeObject3D,     \* this.activeObject3D
    activeComponent,    \* this.activeComponent
    op,                 \* the method called last
    args,               \* its arguments, when they are no event
    event,              \* the event object handed to the last onPointer/onTrigger
    route,              \* what the last routeEvent call was given and did
    calls,              \* handlers invoked by the last call, in order
    ret,                \* what the last call returned
    raised,             \* the exception that left the last call
    sticky,             \* history: viewport/object/component of the gesture's down
    shouldResize,       \* this.shouldResize
    context,            \* this.context: viewport, scene and camera of a render
    cam,                \* the fields of a CameraController
    camOp,              \* the CameraController method called last
    camRet,             \* what it returned
    events,             \* history: the events the controller was sent
    press,              \* history: the movement since the primary pointer-down
    pointer             \* history: type and isPrimary of the event of onPointer

\* the variables of the viewport registry and of the event routing
routeVars == <<viewports, vpEnabled, activeViewport, activeObject3D,
               activeComponent, op, args, event, route, calls, ret, raised,
               sticky>>

\* the variables of the frame loop
frameVars == <<shouldResize, context>>

\* the variables of the camera controller
camVars == <<cam, camOp, camRet, events, press, pointer>>

vars == <<routeVars, frameVars, camVars>>

registry == <<viewports, vpEnabled>>
active == <<activeViewport, activeObject3D, activeComponent>>

----------------------------------------------------------------------------
(* Collaborators *)

\* Array.prototype.indexOf, 0-based, -1 when absent
indexOf(seq, v) ==
    IF \E i \in 1..Len(seq) : seq[i] = v
    THEN (CHOOSE i \in 1..Len(seq) :
            seq[i] = v /\ \A j \in 1..(i - 1) : seq[j] # v) - 1
    ELSE -1

\* Viewport.isPointInside
isPointInside(vp, x, y) ==
    /\ x >= vpRect(vp).x
    /\ x < vpRect(vp).x + vpRect(vp).width
    /\ y >= vpRect(vp).y
    /\ y < vpRect(vp).y + vpRect(vp).height

\* RenderSystem.getObjectByIndex: indices 1 and 2 are registered objects
getObjectByIndex(index) == IF index \in {1, 2} THEN index ELSE Null

\* object3D.userData["component"]: object 1 is owned by component 1,
\* object 2 carries no component in its metadata
userDataComponent(object3D) == IF object3D = 1 THEN 1 ELSE Null

\* component.node
nodeOf(component) == component

----------------------------------------------------------------------------
(* The event object *)

NoEvent == [kind |-> "none"]
NoRoute == [called |-> FALSE]
NoSticky == [viewport |-> Null, object3D |-> Null, component |-> Null]

\* An event as the input layer hands it in: the view's fields are not set.
\* (Records list their fields in the order of the names' first use in the
\* module, the order TLC keeps them in.)
RawEvent(kind, type, isPrimary, x, y) ==
    [viewport |-> Null, object3D |-> Null, component |-> Null,
     kind |-> kind, type |-> type, isPrimary |-> isPrimary,
     localX |-> x, localY |-> y,
     view |-> FALSE, stopPropagation |-> FALSE, node |-> Null]

----------------------------------------------------------------------------
(* routeEvent *)

\* the render system the view was constructed with
system == TRUE

\* hitTest without the test of Viewport.enabled
hitTest_IgnoresEnabled(x, y) ==
    LET hits == {i \in 1..Len(viewports) : isPointInside(viewports[i], x, y)}
    IN  IF hits = {} THEN Null
        ELSE viewports[CHOOSE i \in hits : \A j \in hits : i <= j]

\* hitTest without the break: the last viewport that matches wins
hitTest_LastMatch(x, y) ==
    LET hits == {i \in 1..Len(viewports) :
                    vpEnabled[viewports[i]] /\ isPointInside(viewports[i], x, y)}
    IN  IF hits = {} THEN Null
        ELSE viewports[CHOOSE i \in hits : \A j \in hits : i >= j]

\* routeEvent, the loop of the hit test: the first viewport of the registry
\* that is enabled and contains the point, null when there is none
hitTest(x, y) ==
    LET hits == {i \in 1..Len(viewports) :
                    vpEnabled[viewports[i]] /\ isPointInside(viewports[i], x, y)}
    IN  IF hits = {} THEN Null
        ELSE viewports[CHOOSE i \in hits : \A j \in hits : i <= j]

\* resolveViewport with the hit test run only while no viewport is active
resolveViewport_Sticky(ev, doHitTest) ==
    IF doHitTest /\ activeViewport = Null
    THEN hitTest(ev.localX, ev.localY)
    ELSE activeViewport

\* resolveViewport with the hit test run for every event
resolveViewport_AlwaysHitTest(ev, doHitTest) ==
    hitTest(ev.localX, ev.localY)

\* routeEvent, the viewport the event is resolved to
resolveViewport(ev, doHitTest) ==
    IF doHitTest THEN hitTest(ev.localX, ev.localY) ELSE activeViewport

\* resolveObject3D without the reset that precedes the pick
resolveObject3D_NoClear(doPick, scene, camera, index) ==
    IF doPick /\ scene /\ camera /\ index # 0
    THEN getObjectByIndex(index)
    ELSE activeObject3D

\* resolveObject3D with the active object dropped by an event that does not pick
resolveObject3D_ResetWithoutPick(doPick, scene, camera, index) ==
    IF doPick /\ scene /\ camera /\ index # 0
    THEN getObjectByIndex(index)
    ELSE Null

\* routeEvent, the object the event is resolved to
resolveObject3D(doPick, scene, camera, index) ==
    IF doPick
    THEN IF scene /\ camera /\ index # 0 THEN getObjectByIndex(index) ELSE Null
    ELSE activeObject3D

\* resolveComponent with the component reset only once an object is picked
resolveComponent_KeepWithoutObject(doPick, object3D) ==
    IF doPick /\ object3D # Null
    THEN userDataComponent(object3D)
    ELSE activeComponent

\* resolveComponent with the active component dropped by an event that does
\* not pick
resolveComponent_ResetWithoutPick(doPick, object3D) ==
    IF doPick /\ object3D # Null THEN userDataComponent(object3D) ELSE Null

\* routeEvent, the component the event is resolved to
resolveComponent(doPick, object3D) ==
    IF doPick
    THEN IF object3D # Null THEN userDataComponent(object3D) ELSE Null
    ELSE activeComponent

\* logThrows without the test that an object was found
logThrows_NoGuard(doPick, scene, camera, index) ==
    /\ doPick /\ scene /\ camera /\ index # 0
    /\ userDataComponent(getObjectByIndex(index)) = Null

\* routeEvent, the log statement of a picked object reads component.type:
\* it throws a TypeError when the object's metadata holds no component
logThrows(doPick, scene, camera, index) ==
    /\ doPick /\ scene /\ camera /\ index # 0
    /\ getObjectByIndex(index) # Null
    /\ userDataComponent(getObjectByIndex(index)) = Null

\* the active triplet as it is
activeTriplet ==
    [viewport |-> activeViewport, object3D |-> activeObject3D,
     component |-> activeComponent]

\* activeAfterCancel with the active viewport cleared by a failed hit test
activeAfterCancel_Cleared(doHitTest) ==
    [activeTriplet EXCEPT
        !.viewport = IF doHitTest THEN Null ELSE activeViewport]

\* routeEvent, the active triplet after the call returned null: the hit test
\* works on a local variable, the fields are not written
activeAfterCancel(doHitTest) == activeTriplet

\* routeEvent as a whole: the event object as the call leaves it, how the
\* call ends, and the active triplet after it
routeEvent(ev, doHitTest, doPick, scene, camera, index) ==
    LET viewport == resolveViewport(ev, doHitTest)
        augmented == [ev EXCEPT !.view = TRUE, !.viewport = viewport,
                                !.stopPropagation = FALSE]
        object3D == resolveObject3D(doPick, scene, camera, index)
        component == resolveComponent(doPick, object3D)
    IN  IF viewport = Null
        THEN [event |-> ev, active |-> activeAfterCancel(doHitTest),
              result |-> "null"]
        ELSE IF logThrows(doPick, scene, camera, index)
        THEN [event |-> augmented, active |-> activeTriplet,
              result |-> "throw"]
        ELSE [event |-> [augmented EXCEPT
                            !.object3D = object3D,
                            !.component = component,
                            !.node = IF component # Null THEN nodeOf(component)
                                     ELSE Null],
              active |-> [viewport |-> viewport, object3D |-> object3D,
                          component |-> component],
              result |-> "event"]

\* what routeEvent reads of the render system and of the picker:
\* activeScene and activeCamera once it picks, the pick index once both exist
readsScene(ev, doHitTest, doPick) ==
    doPick /\ resolveViewport(ev, doHitTest) # Null

----------------------------------------------------------------------------
(* onPointer and onTrigger *)

\* pointerPick for every pointer-down, primary or not
pointerPick_AnyDown(ev) == ev.type = "down"

\* onPointer: the flags it hands to routeEvent
pointerHitTest(ev) ==
    \/ ev.type = "hover"
    \/ ev.isPrimary /\ ev.type = "down"

pointerPick(ev) == ev.type # "hover" /\ (ev.isPrimary /\ ev.type = "down")

\* onTrigger: the flags it hands to routeEvent
triggerHitTest == TRUE
triggerPick == TRUE

\* handlerCalls with the viewport's handler invoked whatever the flag says
handlerCalls_ViewportAlways(name, viewEvent, stop) ==
    <<[viewport |-> Null, stopPropagation |-> viewEvent.stopPropagation,
       handler |-> "system", method |-> name],
      [viewport |-> viewEvent.viewport, stopPropagation |-> stop,
       handler |-> "viewport", method |-> name]>>

\* the handlers a routed event is offered to: the render system, then the
\* viewport unless the render system set stopPropagation
handlerCalls(name, viewEvent, stop) ==
    <<[viewport |-> Null, stopPropagation |-> viewEvent.stopPropagation,
       handler |-> "system", method |-> name]>>
    \o (IF ~stop
        THEN <<[viewport |-> viewEvent.viewport, stopPropagation |-> stop,
                handler |-> "viewport", method |-> name]>>
        ELSE <<>>)

\* history: a routed primary pointer-down opens a gesture; every other event
\* that hit-tests or picks closes it
stickyAfter(ev, doHitTest, doPick, r) ==
    IF ~(doHitTest \/ doPick) THEN sticky
    ELSE IF ev.kind = "pointer" /\ ev.type = "down" /\ ev.isPrimary
            /\ r.result = "event"
         THEN [viewport |-> r.event.viewport, object3D |-> r.event.object3D,
               component |-> r.event.component]
         ELSE NoSticky

\* what the call reads of its surroundings: activeScene and activeCamera
\* once it picks, the picker's index once both exist; what is never read is
\* fixed
pickReads(ev, doHitTest, doPick) ==
    IF readsScene(ev, doHitTest, doPick)
    THEN {e \in {[index |-> i, scene |-> s, camera |-> c] :
                    i \in 0..MaxIndex, s \in BOOLEAN, c \in BOOLEAN} :
            (e.scene /\ e.camera) \/ e.index = 0}
    ELSE {[index |-> 0, scene |-> TRUE, camera |-> TRUE]}

\* the body shared by onPointer and onTrigger; env is what routeEvent reads,
\* stop is whether the render system's handler sets stopPropagation
dispatch(name, ev, doHitTest, doPick, env, stop) ==
    IF ~system
    THEN /\ op' = name /\ args' = <<>> /\ event' = ev /\ route' = NoRoute
         /\ calls' = <<>>
         /\ ret' = "false" /\ raised' = "none"
         /\ UNCHANGED <<registry, active, sticky>>
    ELSE
    LET r == routeEvent(ev, doHitTest, doPick, env.scene, env.camera, env.index)
    IN  /\ r.result = "event" \/ ~stop
        /\ op' = name /\ args' = <<>>
        /\ route' = [index |-> env.index, called |-> TRUE,
                     doHitTest |-> doHitTest, doPick |-> doPick,
                     scene |-> env.scene, camera |-> env.camera,
                     result |-> r.result,
                     queried |-> readsScene(ev, doHitTest, doPick)
                                 /\ env.scene /\ env.camera]
        /\ activeViewport' = r.active.viewport
        /\ activeObject3D' = r.active.object3D
        /\ activeComponent' = r.active.component
        /\ sticky' = stickyAfter(ev, doHitTest, doPick, r)
        /\ UNCHANGED registry
        /\ CASE r.result = "event" ->
                  /\ calls' = handlerCalls(name, r.event, stop)
                  /\ event' = [r.event EXCEPT !.stopPropagation = stop]
                  /\ ret' = "true" /\ raised' = "none"
             [] r.result = "null" ->
                  /\ calls' = <<>> /\ event' = r.event
                  /\ ret' = "false" /\ raised' = "none"
             [] r.result = "throw" ->
                  /\ calls' = <<>> /\ event' = r.event
                  /\ ret' = "none" /\ raised' = "TypeError"

onPointer(type, isPrimary, x, y) ==
    LET ev == RawEvent("pointer", type, isPrimary, x, y)
    IN  \E env \in pickReads(ev, pointerHitTest(ev), pointerPick(ev)),
           stop \in BOOLEAN :
            dispatch("onPointer", ev, pointerHitTest(ev), pointerPick(ev),
                     env, stop)

onTrigger(type, x, y) ==
    LET ev == RawEvent("trigger", type, FALSE, x, y)
    IN  \E env \in pickReads(ev, triggerHitTest, triggerPick),
           stop \in BOOLEAN :
            dispatch("onTrigger", ev, triggerHitTest, triggerPick, env, stop)

----------------------------------------------------------------------------
(* The viewport registry *)

\* a call that routes no event
noEvent == event' = NoEvent /\ route' = NoRoute /\ calls' = <<>>

\* an active viewport that a call disables is dropped by that call
activeUntouched_DropsDisabled ==
    /\ activeViewport' = IF activeViewport # Null /\ ~vpEnabled'[activeViewport]
                          THEN Null ELSE activeViewport
    /\ UNCHANGED <<activeObject3D, activeComponent>>

\* the registry and the frame methods assign none of activeViewport,
\* activeObject3D, activeComponent
activeUntouched == UNCHANGED active

\* new Viewport(): a viewport the view has not created yet
newViewport(seq) == Len(seq) + 1

addViewport ==
    /\ Len(viewports) < MaxViewports
    /\ viewports' = Append(viewports, newViewport(viewports))
    /\ op' = "addViewport" /\ args' = <<>> /\ ret' = "viewport" /\ raised' = "none"
    /\ noEvent
    /\ UNCHANGED <<vpEnabled, sticky>>
    /\ activeUntouched

RECURSIVE pushViewports(_, _)
pushViewports(seq, count) ==
    IF count <= 0 THEN seq
    ELSE pushViewports(Append(seq, newViewport(seq)), count - 1)

addViewports(count) ==
    /\ Len(viewports) + count <= MaxViewports
    /\ viewports' = pushViewports(viewports, count)
    /\ op' = "addViewports" /\ args' = <<count>> /\ ret' = "void" /\ raised' = "none"
    /\ noEvent
    /\ UNCHANGED <<vpEnabled, sticky>>
    /\ activeUntouched

\* Array.prototype.splice(index): the entry and all that follow are removed
sliced_SpliceToEnd(seq, index) == SubSeq(seq, 1, index)

\* Array.prototype.splice(index, 1): the entry is removed
sliced_Spliced(seq, index) ==
    SubSeq(seq, 1, index) \o SubSeq(seq, index + 2, Len(seq))

\* Array.prototype.slice(start, end): a copy, the array is left as it is
sliced(seq, index) == seq

getViewportCount == Len(viewports)

removeViewport(viewport) ==
    /\ op' = "removeViewport" /\ args' = <<viewport>>
    /\ noEvent
    /\ IF indexOf(viewports, viewport) < 0
       THEN /\ raised' = "viewport not found" /\ ret' = "none"
            /\ UNCHANGED viewports
       ELSE /\ raised' = "none" /\ ret' = "void"
            /\ viewports' = sliced(viewports, indexOf(viewports, viewport))
    /\ UNCHANGED <<vpEnabled, sticky>>
    /\ activeUntouched

\* this.viewports[index] of a 0-based index: undefined outside the array
viewportAt(index) ==
    IF index >= 0 /\ index < Len(viewports) THEN viewports[index + 1] ELSE Null

enableViewport(index, enabled) ==
    /\ op' = "enableViewport" /\ args' = <<index, enabled>>
    /\ noEvent
    /\ IF viewportAt(index) = Null
       THEN /\ raised' = "TypeError" /\ ret' = "none"
            /\ UNCHANGED vpEnabled
       ELSE /\ raised' = "none" /\ ret' = "void"
            /\ vpEnabled' = [vpEnabled EXCEPT ![viewportAt(index)] = enabled]
    /\ UNCHANGED <<viewports, sticky>>
    /\ activeUntouched

----------------------------------------------------------------------------
(* The frame loop *)

\* a call that returns nothing and raises nothing
returnsVoid(name) ==
    /\ op' = name /\ args' = <<>> /\ ret' = "void" /\ raised' = "none"
    /\ noEvent

\* attach: the canvas size is handed to the viewports and to the renderer,
\* and the view is handed to the render system; no field of the view changes
attach ==
    /\ returnsVoid("attach")
    /\ UNCHANGED <<registry, sticky, frameVars>>
    /\ activeUntouched

detach ==
    /\ returnsVoid("detach")
    /\ UNCHANGED <<registry, sticky, frameVars>>
    /\ activeUntouched

resize ==
    /\ returnsVoid("resize")
    /\ shouldResize' = TRUE
    /\ UNCHANGED <<registry, sticky, context>>
    /\ activeUntouched

\* render, the loop over the viewports: context.viewport is left at the last
\* enabled viewport of the registry
RECURSIVE lastRendered(_, _)
lastRendered(seq, viewport) ==
    IF seq = <<>> THEN viewport
    ELSE lastRendered(Tail(seq),
                      IF vpEnabled[Head(seq)] THEN Head(seq) ELSE viewport)

\* render; scene and camera are system.activeScene and system.activeCamera
render(scene, camera) ==
    /\ returnsVoid("render")
    /\ IF ~scene \/ ~camera
       THEN UNCHANGED frameVars
       ELSE /\ shouldResize' = FALSE
            /\ context' = [viewport |-> lastRendered(viewports, context.viewport),
                           scene |-> scene, camera |-> camera]
    /\ UNCHANGED <<registry, sticky>>
    /\ activeUntouched

----------------------------------------------------------------------------
(* CameraController: values *)

\* numbers are fixed-point, Unit stands for 1.0
Unit == 1000
\* Infinity of the orbit and offset limits
Infinity == 1073741824
viewportHeight == 100

\* a quotient rounded towards zero
quot(n, d) == IF n >= 0 THEN n \div d ELSE -((-n) \div d)

abs(n) == IF n >= 0 THEN n ELSE -n

\* the product of two fixed-point numbers, in two parts to stay in 32 bits
mul(a, b) ==
    LET p == abs(a) * (abs(b) \div Unit) + (abs(a) * (abs(b) % Unit)) \div Unit
    IN  IF (a >= 0) = (b >= 0) THEN p ELSE -p

\* math.limit
limit(v, min, max) == IF v < min THEN min ELSE IF v > max THEN max ELSE v

minOrbit == <<-90 * Unit, -Infinity, -Infinity>>
maxOrbit == <<90 * Unit, Infinity, Infinity>>
minOffset == <<-Infinity, -Infinity, Unit \div 10>>
maxOffset == <<Infinity, Infinity, 1000 * Unit>>

\* the fields of a controller after construction, but for the two switches
Controller(orientation, translation) ==
    [orbit |-> <<0, 0, 0>>, offset |-> <<0, 0, 50 * Unit>>,
     orientationEnabled |-> orientation, offsetEnabled |-> translation,
     mode |-> "Off", phase |-> "Off", prevPinchDist |-> 0,
     deltaX |-> 0, deltaY |-> 0, deltaPinch |-> 0, deltaWheel |-> 0]

\* IPointerEvent, the fields the controller reads; pinchDist is the distance
\* of the two activePositions
PointerEvent(type, isPrimary, source, button, ctrlKey, altKey, pointerCount, movementX, movementY, pinchDist) ==
    [type |-> type, isPrimary |-> isPrimary, source |-> source,
     button |-> button, ctrlKey |-> ctrlKey, altKey |-> altKey,
     pointerCount |-> pointerCount, movementX |-> movementX * Unit,
     movementY |-> movementY * Unit, pinchDist |-> pinchDist]

\* the modifier keys held with a mouse button
MouseKeys(button) ==
    IF button = 0 THEN BOOLEAN \X BOOLEAN
    ELSE IF button = 2 THEN {FALSE} \X BOOLEAN
    ELSE {<<FALSE, FALSE>>}

\* pixels a pointer has moved by: a step either way, and a fling that takes
\* the orbit and the offset past their limits
Movements == {<<1, 0>>, <<-1, 0>>, <<0, -200>>}
PinchDists == {1, 2}

MouseDowns ==
    UNION {{PointerEvent("pointer-down", TRUE, "mouse", button, keys[1],
                         keys[2], 1, 0, 0, 0) : keys \in MouseKeys(button)}
           : button \in 0..3}

\* the first finger is the primary pointer, the second and third are not
TouchDowns ==
    {PointerEvent("pointer-down", TRUE, "touch", 0, FALSE, FALSE, 1, 0, 0, 0),
     PointerEvent("pointer-down", FALSE, "touch", 0, FALSE, FALSE, 3, 0, 0, 0)}
    \cup {PointerEvent("pointer-down", FALSE, "touch", 0, FALSE, FALSE, 2,
                       0, 0, dist) : dist \in PinchDists}

PenDowns ==
    {PointerEvent("pointer-down", TRUE, "pen", 0, FALSE, FALSE, 1, 0, 0, 0)}

Ups ==
    {PointerEvent("pointer-up", TRUE, "mouse", 0, FALSE, FALSE, 0, 0, 0, 0),
     PointerEvent("pointer-up", FALSE, "touch", 0, FALSE, FALSE, 1, 0, 0, 0)}

Moves ==
    {PointerEvent(type, TRUE, "mouse", 0, FALSE, FALSE, 1, by[1], by[2], 0)
        : type \in {"pointer-hover", "pointer-move"}, by \in Movements}
    \cup {PointerEvent("pointer-move", FALSE, "touch", 0, FALSE, FALSE, 2,
                       0, 0, dist) : dist \in PinchDists}

PointerEvents == MouseDowns \cup TouchDowns \cup PenDowns \cup Ups \cup Moves

\* ITriggerEvent, the fields the controller reads
TriggerEvent(type, wheel) == [type |-> type, wheel |-> wheel * Unit]

TriggerEvents ==
    {TriggerEvent("wheel", wheel) : wheel \in {-2, 1}}
    \cup {TriggerEvent("double-click", 0)}

----------------------------------------------------------------------------
(* CameraController: the methods *)

getModeFromEvent(ev) ==
    IF ev.source = "mouse"
    THEN IF ev.button = 0
         THEN IF ev.ctrlKey THEN "Pan"
              ELSE IF ev.altKey THEN "Dolly"
              ELSE "Orbit"
         ELSE IF ev.button = 2
         THEN IF ev.altKey THEN "Roll" ELSE "Pan"
         ELSE IF ev.button = 1 THEN "Dolly"
         ELSE "undefined"
    ELSE IF ev.source = "touch"
    THEN IF ev.pointerCount = 1 THEN "Orbit"
         ELSE IF ev.pointerCount = 2 THEN "PanDolly"
         ELSE "Pan"
    ELSE "undefined"

\* onPointer, the pinch: deltaPinch is scaled by the growth of the distance
\* of two pointers, and is back at 1 with any other count of pointers
pinched(c, ev) ==
    IF ev.pointerCount = 2
    THEN LET prevPinchDist == IF c.prevPinchDist # 0 THEN c.prevPinchDist
                              ELSE ev.pinchDist
         IN  [c EXCEPT !.deltaPinch =
                           IF prevPinchDist > 0
                           THEN mul(c.deltaPinch,
                                    quot(ev.pinchDist * Unit, prevPinchDist))
                           ELSE c.deltaPinch,
                       !.prevPinchDist = ev.pinchDist]
    ELSE [c EXCEPT !.deltaPinch = Unit, !.prevPinchDist = 0]

\* onPointer, the movement: added to the deltas in every phase
moved(c, ev) ==
    [c EXCEPT !.deltaX = c.deltaX + ev.movementX,
              !.deltaY = c.deltaY + ev.movementY]

\* the controller after onPointer(ev)
pointed(c, ev) ==
    IF ev.isPrimary /\ ev.type = "pointer-up"
    THEN [c EXCEPT !.phase = "Release"]
    ELSE LET pressed == IF ev.isPrimary /\ ev.type = "pointer-down"
                        THEN [c EXCEPT !.phase = "Active"] ELSE c
             moded == IF ev.type = "pointer-down"
                      THEN [pressed EXCEPT !.mode = getModeFromEvent(ev)]
                      ELSE pressed
         IN  pinched(moved(moded, ev), ev)

\* the controller after onTrigger(ev), and what onTrigger returns
triggered(c, ev) ==
    IF ev.type = "wheel"
    THEN <<[c EXCEPT !.deltaWheel = c.deltaWheel + limit(ev.wheel, -Unit, Unit)],
           TRUE>>
    ELSE <<c, FALSE>>

\* the orbit is turned and left wherever that takes it
orbitAfter_Unlimited(c, dPitch, dHead, dRoll) ==
    IF c.orientationEnabled
    THEN <<c.orbit[1] + quot(-dPitch * 300, viewportHeight),
           c.orbit[2] + quot(-dHead * 300, viewportHeight),
           c.orbit[3] + quot(-dRoll * 300, viewportHeight)>>
    ELSE c.orbit

\* updatePose, the orbit: turned and limited if orientationEnabled
orbitAfter(c, dPitch, dHead, dRoll) ==
    LET inverse == -1
        turned(i, d) ==
            limit(c.orbit[i] + quot(inverse * d * 300, viewportHeight),
                  minOrbit[i], maxOrbit[i])
    IN  IF c.orientationEnabled
        THEN <<turned(1, dPitch), turned(2, dHead), turned(3, dRoll)>>
        ELSE c.orbit

\* updatePose, the offset: scaled, moved and limited if offsetEnabled
offsetAfter(c, dX, dY, dScale) ==
    LET inverse == -1
        factor == mul(dScale, c.offset[3])
    IN  IF c.offsetEnabled
        THEN <<limit(c.offset[1] + quot(mul(dX, factor) * inverse,
                                        viewportHeight),
                     minOffset[1], maxOffset[1]),
               limit(c.offset[2] - quot(mul(dY, factor) * inverse,
                                        viewportHeight),
                     minOffset[2], maxOffset[2]),
               limit(factor, minOffset[3], maxOffset[3])>>
        ELSE c.offset

updatePose(c, dX, dY, dScale, dPitch, dHead, dRoll) ==
    [c EXCEPT !.orbit = orbitAfter(c, dPitch, dHead, dRoll),
              !.offset = offsetAfter(c, dX, dY, dScale)]

updateByMode(c) ==
    IF c.mode = "Orbit" THEN updatePose(c, 0, 0, Unit, c.deltaY, c.deltaX, 0)
    ELSE IF c.mode = "Pan" THEN updatePose(c, c.deltaX, c.deltaY, Unit, 0, 0, 0)
    ELSE IF c.mode = "Roll" THEN updatePose(c, 0, 0, Unit, 0, 0, c.deltaX)
    ELSE IF c.mode = "Dolly"
    THEN updatePose(c, 0, 0, quot(c.deltaY * 75, 10000) + Unit, 0, 0, 0)
    ELSE IF c.mode = "PanDolly"
    THEN LET pinchScale == quot(c.deltaPinch - Unit, 2) + Unit
         IN  updatePose(c, c.deltaX, c.deltaY, quot(Unit * Unit, pinchScale),
                        0, 0, 0)
    ELSE c

\* update, phase Active: nothing is pending
activeIdle(c) == c.deltaX = 0 /\ c.deltaY = 0 /\ c.deltaPinch = Unit

\* the deltas are kept after they were applied
resetDeltas_Kept(c) == c

\* update, phase Active: the deltas are reset after they were applied
resetDeltas(c) == [c EXCEPT !.deltaX = 0, !.deltaY = 0, !.deltaPinch = Unit]

\* the deltas of a released gesture are kept as they are
decayed_Kept(c) == [c EXCEPT !.deltaPinch = Unit]

\* update, phase Release: the deltas decay by the factor 0.85
decayed(c) ==
    [c EXCEPT !.deltaX = quot(c.deltaX * 85, 100),
              !.deltaY = quot(c.deltaY * 85, 100),
              !.deltaPinch = Unit]

\* a released gesture is never ended
settled_Never(c) == c

\* update, phase Release: the gesture ends below a delta of 0.1
settled(c) ==
    IF abs(c.deltaX) + abs(c.deltaY) < Unit \div 10
    THEN [c EXCEPT !.mode = "Off", !.phase = "Off"]
    ELSE c

\* the controller after update(), and what update returns
updated(c) ==
    IF c.phase = "Off" /\ c.deltaWheel = 0 THEN <<c, FALSE>>
    ELSE IF c.deltaWheel # 0
    THEN <<[updatePose(c, 0, 0, quot(c.deltaWheel * 7, 100) + Unit, 0, 0, 0)
               EXCEPT !.deltaWheel = 0], TRUE>>
    ELSE IF c.phase = "Active"
    THEN IF activeIdle(c) THEN <<c, FALSE>>
         ELSE <<resetDeltas(updateByMode(c)), TRUE>>
    ELSE IF c.phase = "Release"
    THEN <<settled(updateByMode(decayed(c))), TRUE>>
    ELSE <<c, FALSE>>

\* the movement of the events since the primary pointer-down, until update
pressAfter(ev) ==
    IF ev.isPrimary /\ ev.type = "pointer-down"
    THEN <<TRUE, ev.movementX, ev.movementY>>
    ELSE IF ev.isPrimary /\ ev.type = "pointer-up" THEN press
    ELSE IF press[1]
    THEN <<TRUE, press[2] + ev.movementX, press[3] + ev.movementY>>
    ELSE press

\* the last call was not handed a pointer event
NoPointer == <<"none", FALSE>>

CameraController_onPointer(ev) ==
    /\ events < MaxEvents
    /\ pointer' = <<ev.type, ev.isPrimary>>
    /\ events' = events + 1
    /\ cam' = pointed(cam, ev)
    /\ camOp' = "onPointer"
    /\ camRet' = TRUE
    /\ press' = pressAfter(ev)

CameraController_onTrigger(ev) ==
    /\ events < MaxEvents
    /\ events' = events + 1
    /\ cam' = triggered(cam, ev)[1]
    /\ camOp' = "onTrigger"
    /\ camRet' = triggered(cam, ev)[2]
    /\ pointer' = NoPointer
    /\ UNCHANGED press

update ==
    /\ cam' = updated(cam)[1]
    /\ camOp' = "update"
    /\ camRet' = updated(cam)[2]
    /\ press' = <<FALSE, 0, 0>>
    /\ pointer' = NoPointer
    /\ UNCHANGED events

InitController(orientation, translation) ==
    /\ cam = Controller(orientation, translation)
    /\ camOp = "constructor"
    /\ camRet = FALSE
    /\ events = 0
    /\ press = <<FALSE, 0, 0>>
    /\ pointer = NoPointer

----------------------------------------------------------------------------
(* The specification *)

InitView ==
    /\ viewports = <<>>
    \* a viewport is enabled until enableViewport says otherwise
    /\ vpEnabled = [v \in 1..MaxViewports |-> TRUE]
    /\ activeViewport = Null
    /\ activeObject3D = Null
    /\ activeComponent = Null
    /\ op = "constructor"
    /\ args = <<>>
    /\ event = NoEvent
    /\ route = NoRoute
    /\ calls = <<>>
    /\ ret = "void"
    /\ raised = "none"
    /\ sticky = NoSticky
    /\ shouldResize = FALSE
    /\ context = [viewport |-> Null, scene |-> FALSE, camera |-> FALSE]

\* a view and a camera controller, both as constructed
Init == InitView /\ InitController(TRUE, TRUE)

Next ==
    \/ addViewport
    \/ \E count \in 0..MaxViewports : addViewports(count)
    \/ \E viewport \in 1..Foreign : removeViewport(viewport)
    \/ \E index \in 0..MaxViewports, enabled \in BOOLEAN :
            enableViewport(index, enabled)
    \/ \E type \in PointerTypes, isPrimary \in BOOLEAN,
          x \in LocalXs, y \in LocalYs :
            onPointer(type, isPrimary, x, y)
    \/ \E type \in TriggerTypes, x \in LocalXs, y \in LocalYs :
            onTrigger(type, x, y)

\* the registry and the event routing alone
Spec == Init /\ [][Next /\ UNCHANGED <<frameVars, camVars>>]_vars

\* the registry, the frame loop, and the events that make a viewport and an
\* object active
NextView ==
    \/ attach /\ UNCHANGED camVars
    \/ detach /\ UNCHANGED camVars
    \/ resize /\ UNCHANGED camVars
    \/ \E scene \in BOOLEAN, camera \in BOOLEAN :
            render(scene, camera) /\ UNCHANGED camVars
    \/ /\ UNCHANGED <<frameVars, camVars>>
       /\ \/ addViewport
          \/ \E count \in 0..MaxViewports : addViewports(count)
          \/ \E viewport \in 1..Foreign : removeViewport(viewport)
          \/ \E index \in 0..MaxViewports, enabled \in BOOLEAN :
                  enableViewport(index, enabled)
          \/ \E x \in LocalXs, y \in LocalYs : onPointer("down", TRUE, x, y)

SpecView == Init /\ [][NextView]_vars

\* a view as constructed, and a camera controller with its two switches as
\* the application has set them: both on, as constructed, or both off
\* (updatePose reads each switch for its own block only)
InitCamera ==
    /\ InitView
    /\ \E enabled \in BOOLEAN : InitController(enabled, enabled)

NextCamera ==
    /\ UNCHANGED <<routeVars, frameVars>>
    /\ \/ \E ev \in PointerEvents : CameraController_onPointer(ev)
       \/ \E ev \in TriggerEvents : CameraController_onTrigger(ev)
       \/ update

SpecCamera == InitCamera /\ [][NextCamera]_vars

\* update() is called with every frame of the render loop
updateFrame == update /\ UNCHANGED <<routeVars, frameVars>>

\* the events of a gesture with the left mouse button, and of the wheel
GestureEvents ==
    {ev \in PointerEvents : /\ ev.source = "mouse" /\ ev.button = 0
                            /\ ~ev.ctrlKey /\ ~ev.altKey
                            /\ ev.type # "pointer-hover" /\ ev.movementY = 0}

GestureTriggers == {ev \in TriggerEvents : ev.wheel > 0}

NextGesture ==
    /\ UNCHANGED <<routeVars, frameVars>>
    /\ \/ \E ev \in GestureEvents : CameraController_onPointer(ev)
       \/ \E ev \in GestureTriggers : CameraController_onTrigger(ev)
       \/ update

\* the controller as constructed, in a render loop that keeps running
SpecGesture == Init /\ [][NextGesture]_vars /\ WF_vars(updateFrame)

----------------------------------------------------------------------------
(* Properties of the event routing *)

Range(seq) == {seq[i] : i \in 1..Len(seq)}

\* seq without the entries equal to v, the order kept
RECURSIVE without(_, _)
without(seq, v) ==
    IF seq = <<>> THEN <<>>
    ELSE IF Head(seq) = v THEN without(Tail(seq), v)
    ELSE <<Head(seq)>> \o without(Tail(seq), v)

isEventCall == op \in {"onPointer", "onTrigger"}

\* the last call dispatched a routed event
dispatched == isEventCall /\ calls # <<>>

\* the enabled viewports of the registry that contain the last event's point
enabledAt ==
    {v \in Range(viewports) :
        vpEnabled[v] /\ isPointInside(v, event.localX, event.localY)}

isPrimaryDown ==
    op = "onPointer" /\ event.type = "down" /\ event.isPrimary

\* C1: every routed event that is dispatched carries a non-null viewport that
\* is a member of the registry and is enabled at the moment of dispatch.
C1_RoutedViewportEnabled ==
    dispatched =>
        /\ event.viewport # Null
        /\ event.viewport \in Range(viewports)
        /\ vpEnabled[event.viewport]

\* C2: a primary pointer-down inside exactly one enabled viewport is resolved
\* to that viewport, whatever viewport was active, and is routed unless the
\* pick throws; a primary pointer-down inside no enabled viewport is not
\* routed and no handler is invoked.
C2_PrimaryDownHitTest ==
    isPrimaryDown =>
        /\ Cardinality(enabledAt) = 1 =>
              /\ event.viewport \in enabledAt
              /\ raised = "none" => (ret = "true" /\ dispatched)
        /\ enabledAt = {} =>
              /\ event.viewport = Null
              /\ ret = "false" /\ ~dispatched

C2_Witness ==
    /\ isPrimaryDown /\ Len(viewports) = 2
    /\ enabledAt = {2} /\ vpEnabled[1]
    /\ event.viewport = 2 /\ ret = "true" /\ activeViewport = 2

\* C3: once a primary pointer-down was routed with viewport V and object O,
\* every pointer event routed without hit test and without pick carries V, O
\* and O's component, until the next event that hit-tests or picks.
C3_StickyGesture ==
    (/\ op = "onPointer" /\ route.called
     /\ ~route.doHitTest /\ ~route.doPick
     /\ sticky.viewport # Null) =>
        /\ ret = "true"
        /\ event.viewport = sticky.viewport
        /\ event.object3D = sticky.object3D
        /\ event.component = sticky.component

C3_Witness ==
    /\ op = "onPointer" /\ event.type = "move" /\ ret = "true"
    /\ sticky.viewport = 1 /\ sticky.object3D = 1 /\ sticky.component = 1
    /\ event.viewport = 1 /\ event.object3D = 1
    /\ 1 \notin enabledAt

\* C4: a routed event built with doPick for which the picker returns index 0
\* has object3D, component and node null, and the active object and
\* component are null after the call.
C4_PickIndexZero ==
    (isEventCall /\ route.called /\ route.doPick /\ route.queried
     /\ route.index = 0) =>
        /\ ret = "true"
        /\ event.object3D = Null /\ event.component = Null /\ event.node = Null
        /\ activeObject3D = Null /\ activeComponent = Null

C4_Witness ==
    /\ isPrimaryDown /\ route.queried /\ route.index = 0
    /\ ret = "true" /\ event.viewport = 1 /\ activeObject3D = Null

\* C5: a routed event built with doPick for which the picker returns a
\* non-zero index that getObjectByIndex does not know has object3D and
\* component null, is still routed, and no exception leaves the call.
C5_PickIndexUnknown ==
    (isEventCall /\ route.called /\ route.doPick /\ route.queried
     /\ route.index # 0 /\ getObjectByIndex(route.index) = Null) =>
        /\ raised = "none" /\ ret = "true" /\ dispatched
        /\ event.object3D = Null /\ event.component = Null

C5_Witness ==
    /\ op = "onTrigger" /\ route.queried /\ route.index = MaxIndex
    /\ getObjectByIndex(route.index) = Null
    /\ ret = "true" /\ event.object3D = Null

C7_EventCallsNeverRaise == isEventCall => raised = "none"

\* C8: onPointer and onTrigger return true exactly when routeEvent produced
\* a routed event; when no viewport is resolved they return false, no handler
\* is invoked and the active viewport, object and component stay as they are.
C8_ReturnsRouted ==
    [][isEventCall' =>
        /\ route'.called
        /\ (ret' = "true") <=> (route'.result = "event")
        /\ (route'.result = "event") <=> (event'.viewport # Null /\ raised' = "none")
        /\ event'.viewport = Null =>
              /\ ret' = "false" /\ calls' = <<>>
              /\ UNCHANGED active]_vars

C8_Witness ==
    /\ op = "onPointer" /\ event.type = "hover"
    /\ ret = "false" /\ calls = <<>>
    /\ activeViewport = 1 /\ activeObject3D = 1

\* C9: for every routed event the render system's handler is invoked first,
\* with stopPropagation false; the resolved viewport's handler is invoked
\* after it exactly when the render system left stopPropagation false, and
\* no other handler is invoked.
C9_DispatchOrder ==
    (isEventCall /\ ret = "true") =>
        /\ Len(calls) \in {1, 2}
        /\ calls[1].handler = "system" /\ calls[1].method = op
        /\ calls[1].stopPropagation = FALSE
        /\ (Len(calls) = 2) <=> (event.stopPropagation = FALSE)
        /\ Len(calls) = 2 =>
              /\ calls[2].handler = "viewport" /\ calls[2].method = op
              /\ calls[2].viewport = event.viewport

C9_Witness ==
    /\ op = "onTrigger" /\ ret = "true"
    /\ event.stopPropagation /\ Len(calls) = 1 /\ Len(viewports) = 2

\* C10: onPointer calls routeEvent with (doHitTest, doPick) = (true, false)
\* for a hover, (true, true) for a primary pointer-down and (false, false)
\* for every other pointer event; onTrigger calls it with (true, true).
C10_DispatchPolicy ==
    /\ op = "onPointer" =>
        /\ route.called
        /\ <<route.doHitTest, route.doPick>> =
              IF event.type = "hover" THEN <<TRUE, FALSE>>
              ELSE IF event.type = "down" /\ event.isPrimary THEN <<TRUE, TRUE>>
              ELSE <<FALSE, FALSE>>
    /\ op = "onTrigger" =>
        /\ route.called
        /\ <<route.doHitTest, route.doPick>> = <<TRUE, TRUE>>

C10_Witness ==
    /\ op = "onPointer" /\ event.type = "down" /\ ~event.isPrimary
    /\ ret = "true" /\ ~route.doHitTest /\ ~route.doPick

\* the object and the component a pick of the last call resolves to
pickedObject3D ==
    IF route.queried /\ route.index # 0 THEN getObjectByIndex(route.index)
    ELSE Null

pickedComponent ==
    IF pickedObject3D # Null THEN userDataComponent(pickedObject3D) ELSE Null

\* C11: an event routed with doPick while the render system has no active
\* scene or no active camera does not query the picker, carries a null
\* object3D and component whatever was active, is still routed to its
\* viewport, and raises nothing.
C11_PickWithoutSceneOrCamera ==
    (isEventCall /\ route.called /\ route.doPick
     /\ ~(route.scene /\ route.camera)) =>
        /\ ~route.queried
        /\ raised = "none" /\ ret = "true" /\ dispatched
        /\ event.viewport \in enabledAt
        /\ event.object3D = Null /\ event.component = Null /\ event.node = Null
        /\ activeObject3D = Null /\ activeComponent = Null

C11_Witness ==
    /\ isPrimaryDown /\ route.doPick /\ route.scene /\ ~route.camera
    /\ ret = "true" /\ event.viewport = 2 /\ event.object3D = Null

\* C12 as claimed: whatever the kind of the event, when no enabled viewport
\* contains its coordinates no event is routed and nothing is dispatched.
C12_NoViewportNoEvent ==
    (isEventCall /\ enabledAt = {}) => (ret = "false" /\ ~dispatched)

\* C12 amended: a hit-tested event (hover, primary pointer-down, trigger)
\* that no enabled viewport contains is not routed and nothing is
\* dispatched; an event that is not hit-tested is routed exactly when a
\* viewport is active, and then to that viewport, wherever the event lies.
C12_HitTestedOutsideDropped ==
    (isEventCall /\ route.called) =>
        /\ (route.doHitTest /\ enabledAt = {}) =>
              (ret = "false" /\ ~dispatched /\ event.viewport = Null)
        /\ ~route.doHitTest =>
              /\ (ret = "true") <=> (activeViewport # Null)
              /\ event.viewport = activeViewport

C12_Witness ==
    /\ op = "onPointer" /\ event.type = "move" /\ enabledAt = {}
    /\ ret = "true" /\ dispatched /\ event.viewport = 1 /\ vpEnabled[1]

\* C14 as claimed: a hit test that finds no enabled viewport clears the
\* active viewport.
C14_FailedHitTestClears ==
    (isEventCall /\ route.called /\ route.doHitTest /\ route.result = "null")
        => activeViewport = Null

\* C14 amended: a hit test that finds no enabled viewport drops the event
\* and leaves the active viewport, object and component as they were; a
\* pointer event without hit test that follows is routed to the viewport
\* that was active before, and is dropped only when none was.
C14_FailedHitTestKeepsActive ==
    [][/\ (isEventCall' /\ route'.called /\ route'.doHitTest
           /\ route'.result = "null") =>
              (ret' = "false" /\ calls' = <<>> /\ UNCHANGED active)
       /\ (/\ isEventCall /\ route.called /\ route.doHitTest
           /\ route.result = "null"
           /\ op' = "onPointer" /\ route'.called /\ ~route'.doHitTest) =>
              /\ (ret' = "true") <=> (activeViewport # Null)
              /\ event'.viewport = activeViewport
              /\ UNCHANGED active]_vars

C14_Witness ==
    /\ op = "onPointer" /\ event.type = "hover" /\ route.result = "null"
    /\ activeViewport = 1 /\ activeObject3D = 1

\* C15 as claimed: whenever a hit test resolves a viewport other than the
\* active one, the active object and component are reset: the event and the
\* active state carry what this call picked, and nothing when it did not
\* pick.
C15_ResetOnViewportChange ==
    [][(/\ isEventCall' /\ route'.called /\ route'.doHitTest
        /\ route'.result = "event"
        /\ event'.viewport # activeViewport) =>
            /\ event'.object3D = pickedObject3D'
            /\ event'.component = pickedComponent'
            /\ activeObject3D' = pickedObject3D'
            /\ activeComponent' = pickedComponent']_vars

\* C15 amended: when a hit test resolves a viewport other than the active
\* one, the active object and component are replaced only if the event also
\* picks (primary pointer-down, trigger), by what that pick resolves to; a
\* hover carries the active object and component into the new viewport
\* unchanged.
C15_ResetOnlyByPick ==
    [][(/\ isEventCall' /\ route'.called /\ route'.doHitTest
        /\ route'.result = "event"
        /\ event'.viewport # activeViewport) =>
            /\ activeViewport' = event'.viewport
            /\ activeObject3D' = event'.object3D
            /\ activeComponent' = event'.component
            /\ IF route'.doPick
               THEN /\ event'.object3D = pickedObject3D'
                    /\ event'.component = pickedComponent'
               ELSE /\ event'.object3D = activeObject3D
                    /\ event'.component = activeComponent]_vars

C15_Witness ==
    /\ op = "onPointer" /\ event.type = "hover" /\ ret = "true"
    /\ event.viewport = 2 /\ ~vpEnabled[1]
    /\ event.object3D = 1 /\ activeObject3D = 1 /\ activeViewport = 2

\* C16: an event routed with doPick not set carries the object and the
\* component that were active before the call, and leaves both as they were.
C16_NoPickCarriesActive ==
    [][(/\ isEventCall' /\ route'.called /\ ~route'.doPick
        /\ route'.result = "event") =>
            /\ event'.object3D = activeObject3D
            /\ event'.component = activeComponent
            /\ activeObject3D' = activeObject3D
            /\ activeComponent' = activeComponent]_vars

C16_Witness ==
    /\ op = "onPointer" /\ event.type = "up" /\ ret = "true"
    /\ event.object3D = 1 /\ event.component = 1 /\ activeComponent = 1

\* C17: a hit-tested event inside several enabled viewports is resolved to
\* the one registered first among those that are enabled and contain the
\* point; a disabled viewport is never resolved by a hit test.
C17_FirstRegisteredWins ==
    (isEventCall /\ route.called /\ route.doHitTest) =>
        /\ event.viewport # Null => event.viewport \in enabledAt
        /\ enabledAt # {} =>
              /\ event.viewport \in enabledAt
              /\ \A v \in enabledAt :
                    indexOf(viewports, event.viewport) <= indexOf(viewports, v)

C17_Witness ==
    /\ op = "onTrigger" /\ Cardinality(enabledAt) = 2
    /\ event.viewport = 1 /\ ret = "true"

\* C19: the active viewport, object and component are assigned by routeEvent
\* only: addViewport, addViewports, removeViewport, enableViewport, resize,
\* render, attach and detach leave all three as they were, also when the
\* active viewport is the one disabled or named for removal.
C19_OnlyRouteEventAssignsActive ==
    [][op' \in {"addViewport", "addViewports", "removeViewport",
                "enableViewport", "resize", "render", "attach", "detach"}
       => UNCHANGED active]_vars

\* C19 witness: the active viewport of a picked object has just been disabled
C19_Witness ==
    /\ op = "enableViewport" /\ raised = "none"
    /\ activeViewport # Null /\ activeObject3D # Null
    /\ ~vpEnabled[activeViewport]

\* C18: removeViewport(v) of a registered viewport changes nothing: the
\* registry holds the same entries in the same order, v among them,
\* getViewportCount() is what it was, the active triplet is kept, and v is
\* still what a following hit test resolves when it is the first enabled
\* viewport that contains the point.
C18_RemoveViewportKeepsRegistry ==
    [][/\ (op' = "removeViewport" /\ raised' = "none") =>
              /\ viewports' = viewports
              /\ args'[1] \in Range(viewports')
              /\ getViewportCount' = getViewportCount
              /\ vpEnabled' = vpEnabled
              /\ UNCHANGED active
       /\ (/\ op = "removeViewport" /\ raised = "none"
           /\ isEventCall' /\ route'.called /\ route'.doHitTest
           /\ vpEnabled[args[1]]
           /\ isPointInside(args[1], event'.localX, event'.localY)
           /\ \A i \in 1..Len(viewports) :
                 (vpEnabled[viewports[i]]
                  /\ isPointInside(viewports[i], event'.localX, event'.localY))
                    => i - 1 >= indexOf(viewports, args[1])) =>
              event'.viewport = args[1]]_vars

C18_Witness ==
    /\ op = "removeViewport" /\ raised = "none" /\ args = <<2>>
    /\ viewports = <<1, 2>> /\ activeViewport = 2

----------------------------------------------------------------------------
(* Properties of the camera controller *)

\* what the camera is placed by
pose(c) == <<c.orbit, c.offset>>

\* C13: update() returns true exactly when the call changed the state of the
\* controller (orbit, offset, mode, phase or a pending delta) and false when
\* it changed nothing, in every phase, with every mode, an unset one
\* included, and with either switch on or off.
C13_UpdateReportsChange ==
    [][camOp' = "update" => (camRet' <=> cam' # cam)]_vars

\* C13 witness: an update in phase Active with an unset mode and both
\* switches off has returned true
C13_Witness ==
    /\ camOp = "update" /\ camRet
    /\ cam.phase = "Active" /\ cam.mode = "undefined"
    /\ ~cam.orientationEnabled /\ ~cam.offsetEnabled

\* C20: onPointer never moves the camera itself, and the first update() after
\* a primary pointer-down, in phase Active and with no wheel pending, moves
\* the camera by the movement received since that pointer-down and by nothing
\* received before it.
C20_OnlyMovementSincePress ==
    [][/\ camOp' = "onPointer" => pose(cam') = pose(cam)
       /\ (camOp' = "update" /\ press[1] /\ cam.phase = "Active"
                             /\ cam.deltaWheel = 0)
          => pose(cam') = pose(updateByMode([cam EXCEPT !.deltaX = press[2],
                                                        !.deltaY = press[3]]))
      ]_vars

\* C21: once a primary pointer-up has put the controller in phase Release,
\* the update() calls of the running render loop bring phase and mode to Off
\* unless a pointer or trigger event comes between them; an update() in phase
\* Off with no wheel pending returns false and changes nothing.
C21_ReleaseSettles ==
    /\ (cam.phase = "Release" /\ camOp = "update")
           ~> ((cam.phase = "Off" /\ cam.mode = "Off") \/ camOp # "update")
    /\ [][(camOp' = "update" /\ cam.phase = "Off" /\ cam.deltaWheel = 0)
             => (~camRet' /\ cam' = cam)]_vars

\* C21 witness: an update has ended a released gesture whose deltas had
\* decayed below 0.1 without reaching zero
C21_Witness ==
    /\ camOp = "update" /\ camRet
    /\ cam.phase = "Off" /\ cam.mode = "Off"
    /\ cam.deltaX # 0
    /\ abs(cam.deltaX) + abs(cam.deltaY) < Unit \div 10

\* every component of the orbit and of the offset is within its limits
withinLimits ==
    \A i \in 1..3 :
        /\ minOrbit[i] <= cam.orbit[i] /\ cam.orbit[i] <= maxOrbit[i]
        /\ minOffset[i] <= cam.offset[i] /\ cam.offset[i] <= maxOffset[i]

\* C22: from the controller as constructed, after any onPointer, onTrigger
\* and update calls every component of orbit is within [minOrbit, maxOrbit]
\* and every component of offset within [minOffset, maxOffset]; no call
\* changes orbit while orientationEnabled is false, nor offset while
\* offsetEnabled is false.
C22_WithinLimits ==
    /\ []withinLimits
    /\ [][/\ ~cam.orientationEnabled => cam'.orbit = cam.orbit
          /\ ~cam.offsetEnabled => cam'.offset = cam.offset]_vars

\* C22 witness: an update has applied a movement that takes the pitch past
\* 90 degrees, and the pitch is at its limit
C22_Witness ==
    /\ camOp = "update" /\ camRet
    /\ cam.orientationEnabled
    /\ cam.orbit[1] = maxOrbit[1]

\* the step is an onPointer call with a primary pointer-down
primaryDown == camOp' = "onPointer" /\ pointer' = <<"pointer-down", TRUE>>

\* the step is an onPointer call with a primary pointer-up
primaryUp == camOp' = "onPointer" /\ pointer' = <<"pointer-up", TRUE>>

\* the step is an update that finds a released gesture, with no wheel
\* pending, decayed to less than 0.1
settles ==
    /\ camOp' = "update" /\ cam.phase = "Release" /\ cam.deltaWheel = 0
    /\ abs(cam'.deltaX) + abs(cam'.deltaY) < Unit \div 10

\* the deltas a gesture has accumulated
deltas(c) == <<c.deltaX, c.deltaY, c.deltaPinch, c.deltaWheel>>

\* the phase changes as C23 says it does
phaseTransitions ==
    /\ primaryDown => cam'.phase = "Active"
    /\ primaryUp => /\ cam'.phase = "Release"
                    /\ cam'.mode = cam.mode
                    /\ deltas(cam') = deltas(cam)
    /\ settles => cam'.phase = "Off"
    /\ ~(primaryDown \/ primaryUp \/ settles) => cam'.phase = cam.phase

\* C23 as claimed: the phase goes to Active on a primary pointer-down, to
\* Release on a primary pointer-up, which changes neither mode nor deltas,
\* and from Release to Off in update() when |deltaX| + |deltaY| < 0.1; no
\* other call changes the phase; the mode is assigned on pointer-down events
\* only.
C23_ModeOnlyOnPointerDown ==
    [][/\ phaseTransitions
       /\ cam'.mode # cam.mode
             => (camOp' = "onPointer" /\ pointer'[1] = "pointer-down")]_vars

\* C23 as the code has it: the phase changes as claimed, and the mode is
\* assigned on pointer-down events and, to Off, by the update() that ends a
\* released gesture.
C23_PhaseTransitions ==
    [][/\ phaseTransitions
       /\ cam'.mode # cam.mode
             => \/ camOp' = "onPointer" /\ pointer'[1] = "pointer-down"
                \/ settles /\ cam'.mode = "Off"]_vars

\* C23 witness: a primary pointer-up has released an orbit gesture and left
\* its mode and its pending movement as they were
C23_Witness ==
    /\ camOp = "onPointer" /\ pointer = <<"pointer-up", TRUE>>
    /\ cam.phase = "Release" /\ cam.mode = "Orbit"
    /\ cam.deltaX # 0

====
